---- MODULE Spec2Model ----
(***************************************************************************)
(* Model of the Hive AI model service: the full service                    *)
(* (python/model_service.py, ModelService) and the wrapper that selects    *)
(* between it and the minimal-mode request loop                            *)
(* (electron-poc/resources/python-runtime/models/model_service_wrapper.py).*)
(*                                                                         *)
(* A Python value that may be absent (a dict key that is missing, a name   *)
(* that is not bound) is a sequence of length 0 or 1: None_ / Some(v).     *)
(* A Python dict is a sequence of <<key, value>> pairs in insertion order. *)
(* A Python str that the code inspects (the query) is a sequence of        *)
(* one-character strings.  Floats with two decimals are hundredths.        *)
(***************************************************************************)
EXTENDS Integers, Sequences, FiniteSets, TLC

\* ------------------------------------------------------------- bounds ---
MaxLines == 3          \* lines the parent writes to stdin before closing it

\* ---------------------------------------------------------- option/dict ---
None_ == <<>>
Some(v) == <<v>>

DictHas(d, k) == \E i \in 1..Len(d) : d[i][1] = k
DictGet(d, k) == d[CHOOSE i \in 1..Len(d) : d[i][1] = k][2]
DictSet(d, k, v) ==
    IF DictHas(d, k)
    THEN [i \in 1..Len(d) |-> IF d[i][1] = k THEN <<k, v>> ELSE d[i]]
    ELSE Append(d, <<k, v>>)
DictKeys(d) == IF Len(d) = 0 THEN <<>> ELSE [i \in 1..Len(d) |-> d[i][1]]
KeySet(d) == {d[i][1] : i \in 1..Len(d)}

\* dict.get(field, default)
Get(request, field, default) ==
    IF request[field] = None_ THEN default ELSE request[field][1]

\* ------------------------------------------------------- program names ---
CODEBERT == "microsoft/codebert-base"
CODET5 == "Salesforce/codet5p-110m-embedding"
GRAPHCODEBERT == "microsoft/graphcodebert-base"
UNIXCODER == "microsoft/unixcoder-base"
MINILM == "sentence-transformers/all-MiniLM-L6-v2"

\* self.model_loaders: the names that have a loader
model_loaders == {CODEBERT, CODET5, GRAPHCODEBERT, UNIXCODER, MINILM}

\* the imports of the guard at the top of model_service.py
GuardImports == {"torch", "transformers", "sentence_transformers", "chromadb"}
\* the imports the wrapper probes to select the mode
WrapperImports == {"torch", "transformers"}

\* ----------------------------------------------------------- strings ---
Upper == <<"A","B","C","D","E","F","G","H","I","J","K","L","M",
           "N","O","P","Q","R","S","T","U","V","W","X","Y","Z">>
LowerOf == <<"a","b","c","d","e","f","g","h","i","j","k","l","m",
             "n","o","p","q","r","s","t","u","v","w","x","y","z">>

\* str.lower()
LowerChar(c) ==
    IF \E i \in 1..26 : Upper[i] = c
    THEN LowerOf[CHOOSE i \in 1..26 : Upper[i] = c]
    ELSE c
Lower(s) == IF Len(s) = 0 THEN <<>> ELSE [i \in 1..Len(s) |-> LowerChar(s[i])]

\* word in s
Contains(s, w) ==
    \E i \in 1..(Len(s) - Len(w) + 1) : SubSeq(s, i, i + Len(w) - 1) = w

ComplexKeywords ==
    << <<"a","n","a","l","y","z","e">>,
       <<"d","e","b","u","g">>,
       <<"i","m","p","l","e","m","e","n","t">>,
       <<"a","r","c","h","i","t","e","c","t","u","r","e">>,
       <<"d","e","s","i","g","n">>,
       <<"o","p","t","i","m","i","z","e">>,
       <<"r","e","f","a","c","t","o","r">> >>

SimpleLengthLimit == 100
RouteConfidence == 80          \* 0.8, in hundredths

\* mutant of IsSimple: the keywords are looked for in the query as typed
IsSimple_CaseSensitive(query) ==
    /\ Len(query) < SimpleLengthLimit
    /\ ~ \E k \in 1..Len(ComplexKeywords) : Contains(query, ComplexKeywords[k])

\* is_simple of the minimal-mode route_decision branch, for a str query
IsSimple(query) ==
    /\ Len(query) < SimpleLengthLimit
    /\ ~ \E k \in 1..Len(ComplexKeywords) : Contains(Lower(query), ComplexKeywords[k])

\* ------------------------------------------------------------ responses ---
\* One JSON response object; a key the code does not emit is None_.
Response(type, request_id) ==
    [type |-> type, request_id |-> request_id, status |-> None_,
     models_loaded |-> None_, embeddings |-> None_, text |-> None_,
     result |-> None_, mode |-> None_, confidence |-> None_, error |-> None_]

\* mutant of HealthResult: the default provider is reported whether or not it
\* is loaded
HealthResult_Eager(request_id, names) ==
    [Response("health_result", request_id) EXCEPT
        !.status = Some("ready"),
        !.models_loaded = Some(IF \E i \in 1..Len(names) : names[i] = "sentence-transformers/all-MiniLM-L6-v2"
                               THEN names
                               ELSE <<"sentence-transformers/all-MiniLM-L6-v2">> \o names)]

\* mutant of HealthResult: the list of loaded names is left out
HealthResult_NoModels(request_id, names) ==
    [Response("health_result", request_id) EXCEPT !.status = Some("ready")]

\* mutant of HealthResult: the status is "loading" while nothing is loaded
HealthResult_Loading(request_id, names) ==
    [Response("health_result", request_id) EXCEPT
        !.status = Some(IF Len(names) = 0 THEN "loading" ELSE "ready"),
        !.models_loaded = Some(names)]

HealthResult(request_id, names) ==
    [Response("health_result", request_id) EXCEPT
        !.status = Some("ready"), !.models_loaded = Some(names)]

ErrorResponse(request_id, message) ==
    [Response("error", request_id) EXCEPT !.error = Some(message)]

UnknownTypeText(request_type) ==
    <<"Unknown request type: ", IF request_type = None_ THEN "None" ELSE request_type[1]>>

\* --------------------------------------------------------------- input ---
\* A JSON object as the request dict; every key the model reads is a field.
NoRequest ==
    [type |-> None_, request_id |-> None_, model |-> None_, texts |-> None_,
     code |-> None_, task |-> None_, query |-> None_, prompt |-> None_]

Str(chars) == [t |-> "str", v |-> chars]
Num == [t |-> "num", v |-> <<>>]

\* One line of stdin: its form, and the object it encodes when form = "object".
\*   empty   ""            space   "  "          garbage  "{bad"
\*   array   "[1]"         number  "42"          object   "{...}"
Line(form, obj) == [form |-> form, obj |-> obj]

\* str.strip() as far as the forms differ
Strip(line) == IF line.form = "space" THEN Line("empty", line.obj) ELSE line

\* `not line`
IsEmptyStr(line) == line.form = "empty"

\* json.loads: raises JSONDecodeError, or returns the decoded value
JsonLoads(line) ==
    IF line.form \in {"empty", "space", "garbage"}
    THEN [ok |-> FALSE, isdict |-> FALSE, value |-> NoRequest]
    ELSE [ok |-> TRUE, isdict |-> line.form = "object", value |-> line.obj]

\* ------------------------------------------------------------- registry ---
\* reg = [models, tokenizers, loadLog]: self.models, self.tokenizers and the
\* history of provider constructions (from_pretrained / SentenceTransformer
\* calls), one entry per attempt.  env = the outcome of each external call the
\* request makes: [primaryOk, fallbackOk, encodeOk].
Registry(models, tokenizers, loadLog) ==
    [models |-> models, tokenizers |-> tokenizers, loadLog |-> loadLog]

Handle(cls, name, reg) == [cls |-> cls, name |-> name, serial |-> Len(reg.loadLog) + 1]
Attempt(name, via, ok) == [name |-> name, via |-> via, ok |-> ok]

LoadFailedText(name) == <<"Failed to load: ", name>>

\* _load_sentence_transformer; via = "direct" from the loader table,
\* "fallback" from the except branch of _load_codebert
load_sentence_transformer(reg, ok, via) ==
    IF ok
    THEN [raised |-> FALSE,
          reg |-> Registry(DictSet(reg.models, MINILM, Handle("SentenceTransformer", MINILM, reg)),
                           reg.tokenizers,
                           Append(reg.loadLog, Attempt(MINILM, via, TRUE)))]
    ELSE [raised |-> TRUE,
          reg |-> Registry(reg.models, reg.tokenizers,
                           Append(reg.loadLog, Attempt(MINILM, via, FALSE)))]

\* mutant of load_transformer: the tokenizer is stored as soon as it is
\* constructed, before the model's construction fails
load_transformer_PartialStore(model_name, reg, ok) ==
    [raised |-> ~ok,
     reg |-> Registry(IF ok
                      THEN DictSet(reg.models, model_name, Handle("AutoModel", model_name, reg))
                      ELSE reg.models,
                      DictSet(reg.tokenizers, model_name, Handle("AutoTokenizer", model_name, reg)),
                      Append(reg.loadLog, Attempt(model_name, "direct", ok)))]

\* _load_codet5_embedding, _load_graphcodebert, _load_unixcoder: tokenizer and
\* model are constructed, then both are stored
load_transformer(model_name, reg, ok) ==
    IF ok
    THEN [raised |-> FALSE,
          reg |-> Registry(DictSet(reg.models, model_name, Handle("AutoModel", model_name, reg)),
                           DictSet(reg.tokenizers, model_name, Handle("AutoTokenizer", model_name, reg)),
                           Append(reg.loadLog, Attempt(model_name, "direct", TRUE)))]
    ELSE [raised |-> TRUE,
          reg |-> Registry(reg.models, reg.tokenizers,
                           Append(reg.loadLog, Attempt(model_name, "direct", FALSE)))]

\* mutant of codebert_alias: codebert gets a handle of its own, not the one
\* stored under all-MiniLM
codebert_alias_Copy(fb) ==
    IF fb.raised
    THEN fb
    ELSE [raised |-> FALSE,
          reg |-> Registry(DictSet(fb.reg.models, CODEBERT, Handle("SentenceTransformer", CODEBERT, fb.reg)),
                           fb.reg.tokenizers, fb.reg.loadLog)]

\* _load_codebert, the except branch after _load_sentence_transformer()
\* returned or raised: self.models[model_name] = self.models[MINILM]
codebert_alias(fb) ==
    IF fb.raised
    THEN fb
    ELSE [raised |-> FALSE,
          reg |-> Registry(DictSet(fb.reg.models, CODEBERT, DictGet(fb.reg.models, MINILM)),
                           fb.reg.tokenizers, fb.reg.loadLog)]

\* _load_codebert: as load_transformer, but a failure falls back to
\* _load_sentence_transformer and aliases its handle
load_codebert(reg, env) ==
    IF env.primaryOk
    THEN load_transformer(CODEBERT, reg, TRUE)
    ELSE codebert_alias(load_sentence_transformer(load_transformer(CODEBERT, reg, FALSE).reg,
                                                  env.fallbackOk, "fallback"))

\* self.model_loaders[model_name]()
CallLoader(model_name, reg, env) ==
    CASE model_name = CODEBERT -> load_codebert(reg, env)
      [] model_name = MINILM -> load_sentence_transformer(reg, env.primaryOk, "direct")
      [] OTHER -> load_transformer(model_name, reg, env.primaryOk)

\* what _ensure_model_loaded hands to its caller once the loader has run:
\* exc is the exception text when the loader raised
LoaderOutcome(model_name, r) ==
    [exc |-> IF r.raised THEN Some(LoadFailedText(model_name)) ELSE None_, reg |-> r.reg]

\* mutant of ensure_model_loaded: the registry is not consulted, the loader
\* runs on every call
ensure_model_loaded_NoCache(model_name, reg, env) ==
    IF model_name \in model_loaders
    THEN LoaderOutcome(model_name, CallLoader(model_name, reg, env))
    ELSE [exc |-> Some(<<"Unknown model: ", model_name>>), reg |-> reg]

\* _ensure_model_loaded
ensure_model_loaded(model_name, reg, env) ==
    IF DictHas(reg.models, model_name)
    THEN [exc |-> None_, reg |-> reg]
    ELSE IF model_name \in model_loaders
         THEN LoaderOutcome(model_name, CallLoader(model_name, reg, env))
         ELSE [exc |-> Some(<<"Unknown model: ", model_name>>), reg |-> reg]

\* one embedding vector: the text it embeds and the handle that computed it
Vector(text, handle) == [text |-> text, handle |-> handle]

\* mutant of Encode: the batch is pooled into one vector
Encode_Pooled(texts, model) ==
    IF Len(texts) = 0 THEN <<>> ELSE <<Vector(texts[1], model)>>

\* model.encode(texts) / the per-text loop: one vector per text, in order
Encode(texts, model) ==
    IF Len(texts) = 0 THEN <<>> ELSE [i \in 1..Len(texts) |-> Vector(texts[i], model)]

\* generate_embeddings after its _ensure_model_loaded call returned e
embed_loaded(model_name, texts, e, env) ==
    IF e.exc # None_
    THEN [exc |-> e.exc, value |-> <<>>, reg |-> e.reg]
    ELSE IF model_name # MINILM /\ ~DictHas(e.reg.tokenizers, model_name)
         THEN [exc |-> Some(<<"KeyError: ", model_name>>), value |-> <<>>, reg |-> e.reg]
         ELSE IF ~env.encodeOk
              THEN [exc |-> Some(<<"Embedding failed: ", model_name>>), value |-> <<>>, reg |-> e.reg]
              ELSE [exc |-> None_, value |-> Encode(texts, DictGet(e.reg.models, model_name)),
                    reg |-> e.reg]

\* generate_embeddings
generate_embeddings(model_name, texts, reg, env) ==
    embed_loaded(model_name, texts, ensure_model_loaded(model_name, reg, env), env)

\* len(vector): the dimensionality of the model that produced the vector
Dim(vector) == [dim_of |-> vector.handle.name]
\* 0, the length of no vector
NoDim == [dim_of |-> ""]
GenericConfidence == 75        \* 0.75, in hundredths

\* the metrics dict of analyze_code, by the branch that built it; embedding_dim
\* and confidence are the generic branch's, the numbers of the other branches
\* are those of the analyzer's functions
Metrics(kind, task, embeddings) ==
    [kind |-> kind, task |-> task, embedding |-> IF Len(embeddings) = 0 THEN <<>> ELSE <<embeddings[1]>>,
     embedding_dim |-> IF kind # "generic" THEN None_
                       ELSE IF Len(embeddings) = 0 THEN Some(NoDim) ELSE Some(Dim(embeddings[1])),
     confidence |-> IF kind = "generic" THEN Some(GenericConfidence) ELSE None_,
     error |-> None_]

\* mutant of analyze_embedded: a task that is none of the three is refused
analyze_embedded_Strict(task, g) ==
    IF g.exc # None_
    THEN [exc |-> None_,
          value |-> [Metrics("error", task, <<>>) EXCEPT !.error = g.exc],
          reg |-> g.reg]
    ELSE IF task \in {"quality", "patterns", "complexity"}
         THEN [exc |-> None_, value |-> Metrics(task, task, g.value), reg |-> g.reg]
         ELSE [exc |-> None_,
               value |-> [Metrics("error", task, <<>>) EXCEPT !.error = Some(<<"Unknown task: ", task>>)],
               reg |-> g.reg]

\* analyze_code, the try block once generate_embeddings returned or raised g
analyze_embedded(task, g) ==
    IF g.exc # None_
    THEN [exc |-> None_,
          value |-> [Metrics("error", task, <<>>) EXCEPT !.error = g.exc],
          reg |-> g.reg]
    ELSE [exc |-> None_,
          value |-> Metrics(IF task \in {"quality", "patterns", "complexity"}
                            THEN task ELSE "generic", task, g.value),
          reg |-> g.reg]

\* mutant of analyze_loaded: the _ensure_model_loaded call is inside the try,
\* its exception is returned as the result
analyze_loaded_Caught(model_name, code, task, e, env) ==
    IF e.exc # None_
    THEN [exc |-> None_,
          value |-> [Metrics("error", task, <<>>) EXCEPT !.error = e.exc],
          reg |-> e.reg]
    ELSE analyze_embedded(task, generate_embeddings(model_name, <<code>>, e.reg, env))

\* analyze_code after its own _ensure_model_loaded call (outside the try)
\* returned e
analyze_loaded(model_name, code, task, e, env) ==
    IF e.exc # None_
    THEN [exc |-> e.exc, value |-> Metrics("none", task, <<>>), reg |-> e.reg]
    ELSE analyze_embedded(task, generate_embeddings(model_name, <<code>>, e.reg, env))

\* analyze_code
analyze_code(model_name, code, task, reg, env) ==
    analyze_loaded(model_name, code, task, ensure_model_loaded(model_name, reg, env), env)

PromptSlice == 50

\* mutant of generate_text: the whole prompt is quoted
generate_text_Whole(model_name, prompt) ==
    <<"Generated response for: ", prompt, model_name>>

\* generate_text: the placeholder string, by its three parts
generate_text(model_name, prompt) ==
    <<"Generated response for: ",
      SubSeq(prompt, 1, IF Len(prompt) < PromptSlice THEN Len(prompt) ELSE PromptSlice),
      model_name>>

\* str(uuid.uuid4()): a fresh id, no request carries it
Uuid4 == "uuid4"

\* mutant of RequestIdOf: the id of the request is dropped, the default is used
RequestIdOf_Default(request, default) == default

\* request.get("request_id", default)
RequestIdOf(request, default) == Get(request, "request_id", default)

\* process_request, the embed branch once generate_embeddings returned or
\* raised g
embed_response(request_id, g) ==
    [response |-> IF g.exc # None_
                  THEN ErrorResponse(request_id, g.exc[1])
                  ELSE [Response("embed_result", request_id) EXCEPT !.embeddings = Some(g.value)],
     reg |-> g.reg]

\* process_request, the analyze branch once analyze_code returned or raised a
analyze_response(request_id, a) ==
    [response |-> IF a.exc # None_
                  THEN ErrorResponse(request_id, a.exc[1])
                  ELSE [Response("analyze_result", request_id) EXCEPT !.result = Some(a.value)],
     reg |-> a.reg]

\* mutant of dispatch: an analyze request without a model gets the default
\* model of the embed branch
dispatch_SharedDefault(request_type, request_id, request, reg, env) ==
    CASE request_type = Some("health") ->
           [response |-> HealthResult(request_id, DictKeys(reg.models)), reg |-> reg]
      [] request_type = Some("embed") ->
           embed_response(request_id,
                          generate_embeddings(Get(request, "model", MINILM),
                                              Get(request, "texts", <<>>), reg, env))
      [] request_type = Some("generate") ->
           [response |-> [Response("generate_result", request_id) EXCEPT
                             !.text = Some(generate_text(Get(request, "model", "mistral-7b"),
                                                         Get(request, "prompt", <<>>)))],
            reg |-> reg]
      [] request_type = Some("analyze") ->
           analyze_response(request_id,
                            analyze_code(Get(request, "model", MINILM),
                                         Get(request, "code", ""),
                                         Get(request, "task", "quality"), reg, env))
      [] OTHER ->
           [response |-> ErrorResponse(request_id, UnknownTypeText(request_type)), reg |-> reg]

\* process_request with request_type and request_id bound
dispatch(request_type, request_id, request, reg, env) ==
    CASE request_type = Some("health") ->
           [response |-> HealthResult(request_id, DictKeys(reg.models)), reg |-> reg]
      [] request_type = Some("embed") ->
           embed_response(request_id,
                          generate_embeddings(Get(request, "model", MINILM),
                                              Get(request, "texts", <<>>), reg, env))
      [] request_type = Some("generate") ->
           [response |-> [Response("generate_result", request_id) EXCEPT
                             !.text = Some(generate_text(Get(request, "model", "mistral-7b"),
                                                         Get(request, "prompt", <<>>)))],
            reg |-> reg]
      [] request_type = Some("analyze") ->
           analyze_response(request_id,
                            analyze_code(Get(request, "model", CODEBERT),
                                         Get(request, "code", ""),
                                         Get(request, "task", "quality"), reg, env))
      [] OTHER ->
           [response |-> ErrorResponse(request_id, UnknownTypeText(request_type)), reg |-> reg]

\* process_request, for a request that is a dict
process_request(request, reg, env) ==
    dispatch(request.type, RequestIdOf(request, Uuid4), request, reg, env)

\* ------------------------------------------------------------- analyzer ---
\* An embedding (List[float]) as run-length blocks [v, n]: n components of
\* value v, v in tenths.  A float is the rational [num, den], den > 0.
Block(v, n) == [v |-> v, n |-> n]
Rat(num, den) == [num |-> num, den |-> den]
RatLess(a, b) == a.num * b.den < b.num * a.den
RECURSIVE GCD(_, _)
GCD(a, b) == IF b = 0 THEN a ELSE GCD(b, a % b)
\* equality of two non-negative rationals, by their lowest terms
Lowest(r) == Rat(r.num \div GCD(r.num, r.den), r.den \div GCD(r.num, r.den))
RatEq(a, b) == Lowest(a) = Lowest(b)
\* r * k
RatTimes(r, k) == Rat(r.num * (k \div GCD(k, r.den)), r.den \div GCD(k, r.den))
\* Python's max(a, b) and min(a, b): the first argument unless the second is
\* greater (smaller)
PyMax(a, b) == IF RatLess(a, b) THEN b ELSE a
PyMin(a, b) == IF RatLess(b, a) THEN b ELSE a
IntMax(a, b) == IF b > a THEN b ELSE a
IntMin(a, b) == IF b < a THEN b ELSE a

RECURSIVE VLen(_)
\* len(embedding)
VLen(e) == IF Len(e) = 0 THEN 0 ELSE e[1].n + VLen(Tail(e))
RECURSIVE VSum(_)
VSum(e) == IF Len(e) = 0 THEN 0 ELSE e[1].v * e[1].n + VSum(Tail(e))
RECURSIVE VSumSq(_)
VSumSq(e) == IF Len(e) = 0 THEN 0 ELSE e[1].v * e[1].v * e[1].n + VSumSq(Tail(e))

\* np.mean(embedding)
np_mean(e) == Rat(VSum(e), 10 * VLen(e))
\* np.var(embedding): the population variance, mean of squares minus square
\* of the mean
np_var(e) == Rat(VLen(e) * VSumSq(e) - VSum(e) * VSum(e), 100 * VLen(e) * VLen(e))
\* np.std(embedding) > t, both sides squared
StdExceeds(e, t) == RatLess(Rat(t.num * t.num, t.den * t.den), np_var(e))

\* the largest k with k * k <= t
ISqrtCap == 80
ISqrt(t) == CHOOSE k \in 0..ISqrtCap : k * k <= t /\ t < (k + 1) * (k + 1)
\* int(np.std(embedding) * k): the integer part of the root of var * k * k
IntStdTimes(e, k) == ISqrt(RatTimes(np_var(e), k * k).num \div RatTimes(np_var(e), k * k).den)

QualityDefault == Rat(1, 2)
QualityFloor == Rat(1, 10)
QualityCeil == Rat(9, 10)
QualityScale == 100

\* mutant of calculate_quality_score: the variance is not clamped from above
calculate_quality_score_NoCeil(embedding) ==
    IF Len(embedding) = 0
    THEN QualityDefault
    ELSE PyMax(QualityFloor, RatTimes(np_var(embedding), QualityScale))

\* _calculate_quality_score
calculate_quality_score(embedding) ==
    IF Len(embedding) = 0
    THEN QualityDefault
    ELSE PyMin(QualityCeil, PyMax(QualityFloor, RatTimes(np_var(embedding), QualityScale)))

FunctionalMean == Rat(1, 10)
ComplexStd == Rat(2, 10)
DetailedLen == 500
PatternsConfidence == 75       \* 0.75, in hundredths

\* patterns.append(tag) when the test holds
AppendIf(patterns, test, tag) == IF test THEN Append(patterns, tag) ELSE patterns

\* mutant of analyze_patterns: "detailed" is looked at only for complex code
analyze_patterns_Nested(embedding) ==
    IF Len(embedding) = 0
    THEN [patterns |-> <<>>, confidence |-> 0]
    ELSE [patterns |->
            AppendIf(AppendIf(AppendIf(<<>>, RatLess(FunctionalMean, np_mean(embedding)), "functional"),
                              StdExceeds(embedding, ComplexStd), "complex"),
                     StdExceeds(embedding, ComplexStd) /\ VLen(embedding) > DetailedLen, "detailed"),
          confidence |-> PatternsConfidence]

\* _analyze_patterns
analyze_patterns(embedding) ==
    IF Len(embedding) = 0
    THEN [patterns |-> <<>>, confidence |-> 0]
    ELSE [patterns |->
            AppendIf(AppendIf(AppendIf(<<>>, RatLess(FunctionalMean, np_mean(embedding)), "functional"),
                              StdExceeds(embedding, ComplexStd), "complex"),
                     VLen(embedding) > DetailedLen, "detailed"),
          confidence |-> PatternsConfidence]

CyclomaticScale == 50
CyclomaticMax == 20
CognitiveScale == 75
CognitiveMax == 30

\* mutant of analyze_complexity: int() may return 0 and is not raised to 1
analyze_complexity_NoFloor(embedding) ==
    IF Len(embedding) = 0
    THEN [cyclomatic_complexity |-> 1, cognitive_complexity |-> 1]
    ELSE [cyclomatic_complexity |-> IntMin(CyclomaticMax, IntStdTimes(embedding, CyclomaticScale)),
          cognitive_complexity |-> IntMin(CognitiveMax, IntStdTimes(embedding, CognitiveScale))]

\* _analyze_complexity
analyze_complexity(embedding) ==
    IF Len(embedding) = 0
    THEN [cyclomatic_complexity |-> 1, cognitive_complexity |-> 1]
    ELSE [cyclomatic_complexity |->
            IntMax(1, IntMin(CyclomaticMax, IntStdTimes(embedding, CyclomaticScale))),
          cognitive_complexity |->
            IntMax(1, IntMin(CognitiveMax, IntStdTimes(embedding, CognitiveScale)))]

\* ---------------------------------------------------------- state machine ---
VARIABLES
    deps,         \* the modules that can be imported in this installation
    mode,         \* the wrapper's `mode`: "undecided", "full" or "minimal"
    pc,           \* "boot", "ready" (about to read), "handling", "stopped", "exited"
    cur,          \* the line read and not yet handled, None_ otherwise
    trace,        \* history of stdin reads and stdout writes, in order
    models,       \* ModelService.models
    tokenizers,   \* ModelService.tokenizers
    loadLog,      \* history of provider constructions
    request_id,   \* the wrapper's module-level `request_id`, None_ while unbound
    arg,          \* the argument of the function a function-level run calls
    ret           \* what that call returned, NoReturn before it

vars == <<deps, mode, pc, cur, trace, models, tokenizers, loadLog, request_id, arg, ret>>

\* ---- the parent's side: installations and lines it may send
Environments == {GuardImports, {}, WrapperImports}

RequestIds == {"a", "b"}

Q_Simple == <<"W","h","a","t"," ","i","s"," ","2","+","2","?">>
Q_Complex == <<"A","n","a","l","y","z","e"," ","i","t">>
P_Short == <<"h","i">>

Req(type, id) == [NoRequest EXCEPT !.type = Some(type), !.request_id = Some(id)]

\* lines sent to a service in either mode: every form of line, every kind
CommonLines ==
    { Line("empty", NoRequest),
      Line("space", NoRequest),
      Line("garbage", NoRequest),
      Line("array", NoRequest),
      Line("object", Req("health", "a")),
      Line("object", [NoRequest EXCEPT !.type = Some("health")]),
      Line("object", [Req("route_decision", "b") EXCEPT !.query = Some(Str(Q_Simple))]),
      Line("object", Req("bogus", "a")),
      Line("object", [Req("embed", "b") EXCEPT !.texts = Some(<<"t1", "t2">>)]),
      Line("object", [Req("analyze", "b") EXCEPT !.code = Some("c1")]),
      Line("object", [Req("generate", "a") EXCEPT !.prompt = Some(P_Short)]) }

\* further lines for the branches only the minimal loop has
MinimalLines ==
    { Line("object", [Req("route_decision", "a") EXCEPT !.query = Some(Str(Q_Complex))]),
      Line("object", [Req("route_decision", "b") EXCEPT !.query = Some(Num)]) }

\* further lines for the providers only the full service has
FullLines ==
    { Line("object", [Req("embed", "a") EXCEPT !.model = Some(CODET5), !.texts = Some(<<"t1">>)]),
      Line("object", [Req("embed", "b") EXCEPT !.model = Some(CODEBERT), !.texts = Some(<<"t1">>)]),
      Line("object", [Req("embed", "a") EXCEPT !.model = Some("nope"), !.texts = Some(<<"t1">>)]) }

Lines(m) == CommonLines \cup (IF m = "full" THEN FullLines ELSE MinimalLines)

NoLine == Line("none", NoRequest)
NoResponse == Response("none", "")
\* flushed: a written line has left the stdout buffer for the parent
ReadEv(line) == [ev |-> "read", line |-> line, resp |-> NoResponse, flushed |-> TRUE]
WriteEv(resp) == [ev |-> "write", line |-> NoLine, resp |-> resp, flushed |-> FALSE]
EofEv == [ev |-> "eof", line |-> NoLine, resp |-> NoResponse, flushed |-> TRUE]

\* print(json.dumps(response)): the line is put into the stdout buffer
print_json(out, response) == Append(out, WriteEv(response))
\* sys.stdout.flush(): every buffered line goes to the parent
stdout_flush(out) == [i \in 1..Len(out) |-> [out[i] EXCEPT !.flushed = TRUE]]

NRead == Cardinality({i \in 1..Len(trace) : trace[i].ev = "read"})

NoReturn == [fn |-> "none"]

\* the process before it has run
Boot ==
    /\ mode = "undecided"
    /\ pc = "boot"
    /\ cur = None_
    /\ trace = <<>>
    /\ models = <<>>
    /\ tokenizers = <<>>
    /\ loadLog = <<>>
    /\ request_id = None_

Init ==
    /\ deps \in Environments
    /\ Boot
    /\ arg = <<>>
    /\ ret = NoReturn

\* ---- startup (wrapper __main__ block, model_service import guard, run)
\* the wrapper's try: import torch; import transformers
SelectMode(d) == IF WrapperImports \subseteq d THEN "full" ELSE "minimal"

\* the import guard of model_service.py passes
GuardPasses(d) == GuardImports \subseteq d

\* mode == "minimal": the loop is entered, nothing is written to stdout
MinimalStartup ==
    /\ pc = "boot"
    /\ SelectMode(deps) = "minimal"
    /\ mode' = "minimal"
    /\ pc' = "ready"
    /\ UNCHANGED <<deps, cur, trace, models, tokenizers, loadLog, request_id, arg, ret>>

\* mode == "full", from model_service import main: the guard's except branch;
\* sys.exit(1) flushes stdout as the interpreter shuts down
ImportGuardExit ==
    /\ pc = "boot"
    /\ SelectMode(deps) = "full"
    /\ ~GuardPasses(deps)
    /\ mode' = "full"
    /\ trace' = stdout_flush(print_json(trace, ErrorResponse("startup", <<"Missing required dependencies: ", "ImportError">>)))
    /\ pc' = "exited"
    /\ UNCHANGED <<deps, cur, models, tokenizers, loadLog, request_id, arg, ret>>

\* mutant of FullStartup: run() enters the loop without the ready signal
FullStartup_Silent ==
    /\ pc = "boot"
    /\ SelectMode(deps) = "full"
    /\ GuardPasses(deps)
    /\ mode' = "full"
    /\ models' = <<>>
    /\ tokenizers' = <<>>
    /\ pc' = "ready"
    /\ UNCHANGED <<deps, cur, trace, loadLog, request_id, arg, ret>>

\* mode == "full": main() builds the ModelService, run() sends the ready signal
FullStartup ==
    /\ pc = "boot"
    /\ SelectMode(deps) = "full"
    /\ GuardPasses(deps)
    /\ mode' = "full"
    /\ models' = <<>>
    /\ tokenizers' = <<>>
    /\ trace' = stdout_flush(print_json(trace, HealthResult("startup", <<>>)))
    /\ pc' = "ready"
    /\ UNCHANGED <<deps, cur, loadLog, request_id, arg, ret>>

\* ---- reading stdin (for line in sys.stdin / line = input())
ReadLine ==
    /\ pc = "ready"
    /\ NRead < MaxLines
    /\ \E line \in Lines(mode) :
          /\ cur' = Some(line)
          /\ trace' = Append(trace, ReadEv(line))
    /\ pc' = "handling"
    /\ UNCHANGED <<deps, mode, models, tokenizers, loadLog, request_id, arg, ret>>

\* end of input: the for loop ends / EOFError breaks the while loop
Eof ==
    /\ pc = "ready"
    /\ trace' = Append(trace, EofEv)
    /\ pc' = "stopped"
    /\ UNCHANGED <<deps, mode, cur, models, tokenizers, loadLog, request_id, arg, ret>>

\* ---- full mode: one iteration of ModelService.run
Handling(m) == pc = "handling" /\ mode = m /\ cur # None_

\* mutant of RunInvalidJSON: the JSONDecodeError leaves the for loop
RunInvalidJSON_Stops ==
    /\ Handling("full")
    /\ ~JsonLoads(Strip(cur[1])).ok
    /\ pc' = "stopped"
    /\ cur' = None_
    /\ UNCHANGED <<deps, mode, trace, models, tokenizers, loadLog, request_id, arg, ret>>

\* except json.JSONDecodeError: logged, nothing written
RunInvalidJSON ==
    /\ Handling("full")
    /\ ~JsonLoads(Strip(cur[1])).ok
    /\ pc' = "ready"
    /\ cur' = None_
    /\ UNCHANGED <<deps, mode, trace, models, tokenizers, loadLog, request_id, arg, ret>>

\* mutant of RunUnexpected: the exception is not caught inside the for loop
\* and ends it
RunUnexpected_Stops ==
    /\ Handling("full")
    /\ JsonLoads(Strip(cur[1])).ok
    /\ ~JsonLoads(Strip(cur[1])).isdict
    /\ pc' = "stopped"
    /\ cur' = None_
    /\ UNCHANGED <<deps, mode, trace, models, tokenizers, loadLog, request_id, arg, ret>>

\* request.get raises AttributeError before the try of process_request:
\* except Exception in run, logged, nothing written
RunUnexpected ==
    /\ Handling("full")
    /\ JsonLoads(Strip(cur[1])).ok
    /\ ~JsonLoads(Strip(cur[1])).isdict
    /\ pc' = "ready"
    /\ cur' = None_
    /\ UNCHANGED <<deps, mode, trace, models, tokenizers, loadLog, request_id, arg, ret>>

\* mutant of PrintResponse: the response stays in the stdout buffer
PrintResponse_Unflushed(r) ==
    /\ trace' = print_json(trace, r.response)
    /\ models' = r.reg.models
    /\ tokenizers' = r.reg.tokenizers
    /\ loadLog' = r.reg.loadLog

\* print(json.dumps(response)) of run, with the registry process_request left
PrintResponse(r) ==
    /\ trace' = stdout_flush(print_json(trace, r.response))
    /\ models' = r.reg.models
    /\ tokenizers' = r.reg.tokenizers
    /\ loadLog' = r.reg.loadLog

\* response = self.process_request(request); print; flush
RunRequest ==
    /\ Handling("full")
    /\ JsonLoads(Strip(cur[1])).ok
    /\ JsonLoads(Strip(cur[1])).isdict
    /\ \E primaryOk \in BOOLEAN, fallbackOk \in BOOLEAN, encodeOk \in BOOLEAN :
          PrintResponse(process_request(JsonLoads(Strip(cur[1])).value,
                                        Registry(models, tokenizers, loadLog),
                                        [primaryOk |-> primaryOk, fallbackOk |-> fallbackOk,
                                         encodeOk |-> encodeOk]))
    /\ pc' = "ready"
    /\ cur' = None_
    /\ UNCHANGED <<deps, mode, request_id, arg, ret>>

\* ---- minimal mode: one iteration of the wrapper's while loop
\* if not line: continue
MinBlank ==
    /\ Handling("minimal")
    /\ IsEmptyStr(cur[1])
    /\ pc' = "ready"
    /\ cur' = None_
    /\ UNCHANGED <<deps, mode, trace, models, tokenizers, loadLog, request_id, arg, ret>>

\* except json.JSONDecodeError
MinJSONDecodeError ==
    /\ Handling("minimal")
    /\ ~IsEmptyStr(cur[1])
    /\ ~JsonLoads(cur[1]).ok
    /\ trace' = stdout_flush(print_json(trace, ErrorResponse("decode_error", <<"JSON decode error: ", "JSONDecodeError">>)))
    /\ pc' = "ready"
    /\ cur' = None_
    /\ UNCHANGED <<deps, mode, models, tokenizers, loadLog, request_id, arg, ret>>

\* request_id if 'request_id' in locals() else "unknown"
HandlerRequestId(rid) == IF rid = None_ THEN "unknown" ELSE rid[1]

\* the if/elif/else of the minimal loop with request_type and request_id
\* bound; raised when len(query) / query.lower() fails on a query that is
\* not a str
minimal_dispatch(request_type, rid, request) ==
    CASE request_type = Some("health") ->
           [raised |-> FALSE, response |-> HealthResult(rid, <<>>)]
      [] request_type = Some("route_decision") ->
           IF Get(request, "query", Str(<<>>)).t # "str"
           THEN [raised |-> TRUE, response |-> ErrorResponse(rid, <<"TypeError: ", "len">>)]
           ELSE [raised |-> FALSE,
                 response |-> [Response("route_decision", rid) EXCEPT
                     !.mode = Some(IF IsSimple(Get(request, "query", Str(<<>>)).v)
                                   THEN "simple" ELSE "complex"),
                     !.confidence = Some(RouteConfidence)]]
      [] OTHER ->
           [raised |-> FALSE, response |-> ErrorResponse(rid, UnknownTypeText(request_type))]

\* what the minimal loop prints for a request that is a dict: the branch's
\* response, or the except Exception handler's with the request_id just bound
minimal_answer(request) ==
    minimal_dispatch(request.type, RequestIdOf(request, "unknown"), request).response

MinDecoded == Handling("minimal") /\ ~IsEmptyStr(cur[1]) /\ JsonLoads(cur[1]).ok

\* except Exception: request.get raised AttributeError on a value that is not
\* a dict; the module-level request_id still holds what an earlier iteration
\* bound
MinNotDict ==
    /\ MinDecoded
    /\ ~JsonLoads(cur[1]).isdict
    /\ trace' = stdout_flush(print_json(trace, ErrorResponse(HandlerRequestId(request_id),
                                                   <<"AttributeError: ", "get">>)))
    /\ pc' = "ready"
    /\ cur' = None_
    /\ UNCHANGED <<deps, mode, models, tokenizers, loadLog, request_id, arg, ret>>

\* mutant of MinRequest: once an earlier request has bound request_id, a
\* route_decision is answered "complex" whatever its query
MinRequest_Sticky ==
    /\ MinDecoded
    /\ JsonLoads(cur[1]).isdict
    /\ request_id' = Some(RequestIdOf(JsonLoads(cur[1]).value, "unknown"))
    /\ trace' = stdout_flush(print_json(trace,
                   IF request_id # None_ /\ minimal_answer(JsonLoads(cur[1]).value).type = "route_decision"
                   THEN [minimal_answer(JsonLoads(cur[1]).value) EXCEPT !.mode = Some("complex")]
                   ELSE minimal_answer(JsonLoads(cur[1]).value)))
    /\ pc' = "ready"
    /\ cur' = None_
    /\ UNCHANGED <<deps, mode, models, tokenizers, loadLog, arg, ret>>

\* mutant of MinRequest: the response carries the request_id an earlier
\* iteration bound, when there is one
MinRequest_StaleId ==
    /\ MinDecoded
    /\ JsonLoads(cur[1]).isdict
    /\ request_id' = Some(RequestIdOf(JsonLoads(cur[1]).value, "unknown"))
    /\ trace' = stdout_flush(print_json(trace,
                   IF request_id # None_
                   THEN [minimal_answer(JsonLoads(cur[1]).value) EXCEPT !.request_id = request_id[1]]
                   ELSE minimal_answer(JsonLoads(cur[1]).value)))
    /\ pc' = "ready"
    /\ cur' = None_
    /\ UNCHANGED <<deps, mode, models, tokenizers, loadLog, arg, ret>>

\* the request is a dict: request_id is bound, one branch prints its response
\* (or the except Exception handler prints for it)
MinRequest ==
    /\ MinDecoded
    /\ JsonLoads(cur[1]).isdict
    /\ request_id' = Some(RequestIdOf(JsonLoads(cur[1]).value, "unknown"))
    /\ trace' = stdout_flush(print_json(trace, minimal_answer(JsonLoads(cur[1]).value)))
    /\ pc' = "ready"
    /\ cur' = None_
    /\ UNCHANGED <<deps, mode, models, tokenizers, loadLog, arg, ret>>

Next ==
    \/ MinimalStartup
    \/ ImportGuardExit
    \/ FullStartup
    \/ ReadLine
    \/ Eof
    \/ RunInvalidJSON
    \/ RunUnexpected
    \/ RunRequest
    \/ MinBlank
    \/ MinJSONDecodeError
    \/ MinNotDict
    \/ MinRequest

Spec == Init /\ [][Next]_vars

\* The process runs whenever it can take a step, and the parent sends finitely
\* many lines and then closes stdin.
FairSpec == Spec /\ WF_vars(Next)

\* ---- a full installation under a wider choice of requests, few of them
MaxWide == 2

P_Long == [i \in 1..51 |-> IF i = 51 THEN "y" ELSE "x"]
P_Long2 == [i \in 1..51 |-> IF i = 51 THEN "z" ELSE "x"]

WideEmbeds ==
    { [Req("embed", "a") EXCEPT !.model = Some(n), !.texts = Some(t)] :
        n \in {MINILM, CODET5}, t \in {<<>>, <<"t1", "t2">>, <<"t2", "t1">>} }
    \cup { Req("embed", "b"),
           [Req("embed", "b") EXCEPT !.model = Some("nope"), !.texts = Some(<<"t1">>)] }

WideAnalyzes ==
    { [Req("analyze", "a") EXCEPT !.model = Some(MINILM), !.code = Some("c1"), !.task = Some(t)] :
        t \in {"summary", "quality"} }
    \cup { [Req("analyze", "b") EXCEPT !.code = Some("c1"), !.task = Some("summary")],
           [Req("analyze", "b") EXCEPT !.model = Some("nope"), !.code = Some("c1")] }

WideGenerates ==
    { [Req("generate", "a") EXCEPT !.model = Some(n), !.prompt = Some(p)] :
        n \in {"nope", CODET5}, p \in {P_Long, P_Long2} }
    \cup { [Req("generate", "b") EXCEPT !.prompt = Some(P_Short)], Req("generate", "b") }

WideLines == {Line("object", r) : r \in WideEmbeds \cup WideAnalyzes \cup WideGenerates}

WideInit == Init /\ deps = GuardImports

ReadWide ==
    /\ pc = "ready"
    /\ NRead < MaxWide
    /\ \E line \in WideLines :
          /\ cur' = Some(line)
          /\ trace' = Append(trace, ReadEv(line))
    /\ pc' = "handling"
    /\ UNCHANGED <<deps, mode, models, tokenizers, loadLog, request_id, arg, ret>>

WideNext ==
    \/ FullStartup
    \/ ReadWide
    \/ RunRequest
    \/ Eof

WideSpec == WideInit /\ [][WideNext]_vars

\* ---- the analyzer's functions called on their own
MaxBlocks == 2

\* short vectors of large components, long vectors of small ones
ShortBlocks == {Block(v, n) : v \in {-10, 0, 1, 3, 10}, n \in {1, 2}}
LongBlocks == {Block(v, n) : v \in {-2, 0, 1, 4}, n \in {250, 251}}
BlockSeqs(blocks) == UNION {[1..m -> blocks] : m \in 1..MaxBlocks}
Embeddings == {<<>>} \cup BlockSeqs(ShortBlocks) \cup BlockSeqs(LongBlocks)

service == <<deps, mode, pc, cur, trace, models, tokenizers, loadLog, request_id>>

AnalyzerInit ==
    /\ deps = GuardImports
    /\ Boot
    /\ arg \in Embeddings
    /\ ret = NoReturn

CallQualityScore ==
    /\ ret.fn # "quality"
    /\ ret' = [fn |-> "quality", value |-> calculate_quality_score(arg)]
    /\ UNCHANGED <<service, arg>>

CallAnalyzePatterns ==
    /\ ret.fn # "patterns"
    /\ ret' = [fn |-> "patterns", value |-> analyze_patterns(arg)]
    /\ UNCHANGED <<service, arg>>

CallAnalyzeComplexity ==
    /\ ret.fn # "complexity"
    /\ ret' = [fn |-> "complexity", value |-> analyze_complexity(arg)]
    /\ UNCHANGED <<service, arg>>

AnalyzerNext ==
    \/ CallQualityScore
    \/ CallAnalyzePatterns
    \/ CallAnalyzeComplexity

AnalyzerSpec == AnalyzerInit /\ [][AnalyzerNext]_vars

\* ---- the routing heuristic called on its own
Q_Architecture ==
    <<"A","n","a","l","y","z","e"," ","t","h","e"," ","a","r","c","h","i","t","e","c","t","u","r","e"," ","o","f"," ","t","h","i","s"," ","p","r","o","j","e","c","t"," ","i","n"," ","d","e","p","t","h">>
\* the four queries of test_routing.py
T_Math ==
    <<"W","h","a","t"," ","i","s"," ","2"," ","+"," ","2","?">>
T_Auth ==
    <<"E","x","p","l","a","i","n"," ","h","o","w"," ","t","h","e"," ","a","u","t","h","e","n","t","i","c","a","t","i","o","n"," ","s","y","s","t","e","m"," ","i","n"," ","t","h","i","s"," ","c","o","d","e","b","a","s","e"," ","w","o","r","k","s">>
T_Repo ==
    <<"W","h","a","t"," ","i","s"," ","t","h","e"," ","n","a","m","e"," ","o","f"," ","t","h","i","s"," ","r","e","p","o","s","i","t","o","r","y","?">>
T_Arch ==
    <<"A","n","a","l","y","z","e"," ","t","h","e"," ","a","r","c","h","i","t","e","c","t","u","r","e"," ","o","f"," ","t","h","i","s"," ","p","r","o","j","e","c","t">>
TestQueries == {T_Math, T_Auth, T_Repo, T_Arch}
\* words that look like keywords and are none
NearMisses == {<<"a","n","a","l","y","s","e">>, <<"d","e","s","i","n","g">>, <<"b","u","g">>}
UpperChar(c) ==
    IF \E i \in 1..26 : LowerOf[i] = c THEN Upper[CHOOSE i \in 1..26 : LowerOf[i] = c] ELSE c
ToUpper(s) == [i \in 1..Len(s) |-> UpperChar(s[i])]
Capitalized(s) == [i \in 1..Len(s) |-> IF i = 1 THEN UpperChar(s[i]) ELSE s[i]]
KeywordSet == {ComplexKeywords[k] : k \in 1..Len(ComplexKeywords)}
\* q inside a longer word
Embedded(q) == <<"r", "e">> \o q \o <<"s">>
Words ==
    KeywordSet \cup {ToUpper(w) : w \in KeywordSet} \cup {Capitalized(w) : w \in KeywordSet}
    \cup {Embedded(w) : w \in KeywordSet} \cup NearMisses \cup {<<>>, Q_Simple, Q_Architecture}
    \cup TestQueries
\* q followed by a blank and filler up to length n
Padded(q, n) ==
    IF Len(q) >= n THEN q
    ELSE q \o [i \in 1..(n - Len(q)) |-> IF i = 1 THEN " " ELSE "x"]
PadLengths == {0, 99, 100}
Queries == {Padded(w, n) : w \in Words, n \in PadLengths}

RouteInit ==
    /\ deps = {}
    /\ Boot
    /\ arg \in Queries
    /\ ret = NoReturn

\* the route_decision branch on a request with the query
CallRouteDecision ==
    /\ ret.fn # "route_decision"
    /\ ret' = [fn |-> "route_decision",
               value |-> minimal_answer([Req("route_decision", "a") EXCEPT !.query = Some(Str(arg))])]
    /\ UNCHANGED <<service, arg>>

\* the route_decision branch on a request without a query
CallRouteDefault ==
    /\ ret.fn # "route_default"
    /\ ret' = [fn |-> "route_default", value |-> minimal_answer(Req("route_decision", "a"))]
    /\ UNCHANGED <<service, arg>>

RouteNext ==
    \/ CallRouteDecision
    \/ CallRouteDefault

RouteSpec == RouteInit /\ [][RouteNext]_vars

TypeOK ==
    /\ pc \in {"boot", "ready", "handling", "stopped", "exited"}
    /\ mode \in {"undecided", "full", "minimal"}
    /\ NRead <= MaxLines

\* ------------------------------------------------------ reading the trace ---
IsRead(i) == trace[i].ev = "read"
IsWrite(i) == i \in 1..Len(trace) /\ trace[i].ev = "write"

\* the line read at position i has been handled completely
Handled(i) == IsRead(i) /\ (i < Len(trace) \/ pc # "handling")

\* the number of responses written between the read at i and the next read
AnswerCount(i) ==
    Cardinality({j \in (i + 1)..Len(trace) : \A k \in (i + 1)..j : trace[k].ev = "write"})

\* the response that follows the read at i (when AnswerCount(i) >= 1)
AnswerTo(i) == trace[i + 1].resp

Blank(line) == line.form \in {"empty", "space"}
Malformed(line) == line.form = "garbage"
IsObject(line) == line.form = "object"
HasId(line) == IsObject(line) /\ line.obj.request_id # None_
HasType(line, type) == IsObject(line) /\ line.obj.type = Some(type)

\* request ids the service makes up itself
SentinelIds == {"startup", "decode_error", "unknown", Uuid4}

\* ids of the requests read before position i
EarlierIds(i) == {trace[j].line.obj.request_id[1] : j \in {k \in 1..(i - 1) : IsRead(k) /\ HasId(trace[k].line)}}

\* the loop is left only through end of input
LoopAlive == pc = "stopped" => trace[Len(trace)].ev = "eof"

UnknownTypeError(resp) ==
    resp.type = "error" /\ resp.error # None_ /\ resp.error[1][1] = "Unknown request type: "

\* ----------------------------------------------------------------- claims ---

\* C1 (as claimed): in both modes every non-blank line read gets exactly one
\* response, written right after it and before the next read, and the response
\* carries the line's request_id when the line has one.
C1_OneResponsePerLine ==
    \A i \in 1..Len(trace) :
        (Handled(i) /\ ~Blank(trace[i].line)) =>
            /\ AnswerCount(i) = 1
            /\ HasId(trace[i].line) => AnswerTo(i).request_id = trace[i].line.obj.request_id[1]

\* C2 (as claimed): in both modes a line that is not valid JSON gets exactly
\* one response of type "error" with a sentinel request_id, and the loop goes on.
C2_MalformedGetsError ==
    /\ \A i \in 1..Len(trace) :
          (Handled(i) /\ Malformed(trace[i].line)) =>
              /\ AnswerCount(i) = 1
              /\ AnswerTo(i).type = "error"
              /\ AnswerTo(i).request_id \in SentinelIds
    /\ LoopAlive

\* C3: in both modes, once malformed lines have been read the loop is still
\* running, and a later health request that carries a request_id is answered
\* by exactly one health_result with status "ready" and that request_id.
C3_HealthAfterMalformed ==
    /\ \A i \in 1..Len(trace) :
          (/\ Handled(i)
           /\ HasType(trace[i].line, "health") /\ HasId(trace[i].line)
           /\ \E j \in 1..(i - 1) : IsRead(j) /\ Malformed(trace[j].line)) =>
              /\ AnswerCount(i) = 1
              /\ AnswerTo(i).type = "health_result"
              /\ AnswerTo(i).status = Some("ready")
              /\ AnswerTo(i).request_id = trace[i].line.obj.request_id[1]
    /\ (\E j \in 1..Len(trace) : IsRead(j) /\ Malformed(trace[j].line)) => LoopAlive

\* a full-mode run read two malformed lines and then answered a health request
C3_Witness ==
    /\ mode = "full"
    /\ Len(trace) = 5
    /\ IsRead(2) /\ Malformed(trace[2].line)
    /\ IsRead(3) /\ Malformed(trace[3].line)
    /\ IsRead(4) /\ HasType(trace[4].line, "health") /\ HasId(trace[4].line)
    /\ IsWrite(5) /\ trace[5].resp.type = "health_result"

\* C4 (as claimed): in both modes a decoded line whose handling raises (a line
\* that is valid JSON but not an object always does) gets an error response
\* whose request_id is the line's own or a sentinel, never an earlier
\* request's, and the loop goes on.
C4_ExceptionKeepsOwnId ==
    /\ \A i \in 1..Len(trace) :
          (Handled(i) /\ trace[i].line.form = "array") =>
              /\ AnswerCount(i) = 1
              /\ AnswerTo(i).type = "error"
              /\ AnswerTo(i).request_id \in SentinelIds
              /\ AnswerTo(i).request_id \notin EarlierIds(i)
    /\ LoopAlive

\* C5: in both modes, a line that decodes to an object with a request_id gets
\* one response, result or error, and it carries that request_id.
C5_RequestIdEchoed ==
    \A i \in 1..Len(trace) :
        (Handled(i) /\ HasId(trace[i].line)) =>
            /\ AnswerCount(i) = 1
            /\ AnswerTo(i).request_id = trace[i].line.obj.request_id[1]

\* a minimal-mode run answered a request with id "a", then answered a request
\* with id "b" whose handling raised by an error carrying "b"
C5_Witness ==
    /\ mode = "minimal"
    /\ Len(trace) = 4
    /\ IsRead(1) /\ HasId(trace[1].line) /\ trace[1].line.obj.request_id = Some("a")
    /\ IsRead(3) /\ HasType(trace[3].line, "route_decision")
    /\ trace[3].line.obj.query = Some(Num)
    /\ IsWrite(4) /\ trace[4].resp.type = "error" /\ trace[4].resp.request_id = "b"

\* the responses written before the first line is read
FirstRead ==
    IF \E i \in 1..Len(trace) : ~IsWrite(i)
    THEN CHOOSE i \in 1..Len(trace) : ~IsWrite(i) /\ \A k \in 1..(i - 1) : IsWrite(k)
    ELSE Len(trace) + 1
Unsolicited == SubSeq(trace, 1, FirstRead - 1)
InLoop == pc \in {"ready", "handling", "stopped"}
ReadySignal(e) == e.resp.type = "health_result" /\ e.resp.status = Some("ready")

Kinds == {"health", "embed", "generate", "analyze", "route_decision"}
\* no external call fails
AllOk == [primaryOk |-> TRUE, fallbackOk |-> TRUE, encodeOk |-> TRUE]
\* the response the other mode's service gives the same request when freshly
\* started
OtherModeAnswer(request) ==
    IF mode = "full"
    THEN minimal_answer(request)
    ELSE process_request(request, Registry(<<>>, <<>>, <<>>), AllOk).response

\* C7 (as claimed): a request of one of the five kinds that one mode answers
\* with a result is not answered with the error "Unknown request type" by the
\* other mode.
C7_SameContractBothModes ==
    \A i \in 1..Len(trace) :
        (/\ Handled(i) /\ IsObject(trace[i].line)
         /\ \E k \in Kinds : HasType(trace[i].line, k)
         /\ AnswerCount(i) = 1 /\ AnswerTo(i).type # "error") =>
            ~UnknownTypeError(OtherModeAnswer(trace[i].line.obj))

\* C8 (as claimed): in minimal mode an embed request is answered with an
\* embed_result holding one vector per text and an analyze request with an
\* analyze_result, never with an error.
C8_MinimalProviderAvailable ==
    \A i \in 1..Len(trace) :
        (mode = "minimal" /\ Handled(i)) =>
            /\ HasType(trace[i].line, "embed") =>
                  /\ AnswerCount(i) = 1
                  /\ AnswerTo(i).type = "embed_result"
                  /\ AnswerTo(i).embeddings # None_
                  /\ Len(AnswerTo(i).embeddings[1]) = Len(Get(trace[i].line.obj, "texts", <<>>))
            /\ HasType(trace[i].line, "analyze") =>
                  /\ AnswerCount(i) = 1
                  /\ AnswerTo(i).type = "analyze_result"

\* C9 (as claimed): when a dependency of the full service cannot be imported
\* the process does not exit at startup and runs the minimal loop.
C9_DegradesToMinimal ==
    ~GuardPasses(deps) =>
        /\ pc # "exited"
        /\ pc # "boot" => mode = "minimal"

\* C10 (as claimed): once a construction of a provider has failed, no later
\* request naming that provider starts another construction of it.
C10_FailedStaysFailed ==
    \A i \in 1..Len(loadLog) : \A j \in (i + 1)..Len(loadLog) :
        (loadLog[i].name = loadLog[j].name /\ ~loadLog[i].ok) => loadLog[j].via # "direct"

\* ---- provider lifecycle
Loaded(name) == DictHas(models, name)
Constructions(name) == {i \in 1..Len(loadLog) : loadLog[i].name = name}
FallbackRuns == {i \in 1..Len(loadLog) : loadLog[i].via = "fallback"}

\* the model an embed request names
EmbedModel(line) == Get(line.obj, "model", MINILM)
EmbedNaming(line, name) == HasType(line, "embed") /\ EmbedModel(line) = name

\* C11 (as claimed): a name once stored in the registry stays in it, and a
\* provider whose construction has failed is never constructed successfully
\* later.
C11_LifecycleMonotonic ==
    /\ \A i \in 1..Len(loadLog) : loadLog[i].ok => Loaded(loadLog[i].name)
    /\ \A i \in 1..Len(loadLog) : \A j \in (i + 1)..Len(loadLog) :
          (loadLog[i].name = loadLog[j].name /\ ~loadLog[i].ok) => ~loadLog[j].ok

\* the request handled just before the current one was an embed request
\* naming `name` and was answered with embeddings
PreviousEmbedAnswered(name) ==
    /\ Len(trace) >= 3
    /\ IsRead(Len(trace) - 2) /\ EmbedNaming(trace[Len(trace) - 2].line, name)
    /\ IsWrite(Len(trace) - 1) /\ trace[Len(trace) - 1].resp.type = "embed_result"

\* C12: when two consecutive embed requests name the same provider and the
\* first was answered with embeddings, handling the second constructs nothing
\* and leaves the registry as it is, and embeddings it returns come from the
\* handle the first request used.
C12_SecondEmbedUsesCache ==
    [][\A name \in model_loaders :
          (Handling("full") /\ EmbedNaming(cur[1], name) /\ PreviousEmbedAnswered(name)) =>
              /\ loadLog' = loadLog
              /\ models' = models
              /\ tokenizers' = tokenizers
              /\ IsObject(cur[1])
              /\ trace'[Len(trace')].ev = "write"
              /\ trace'[Len(trace')].resp.type \in {"embed_result", "error"}
              /\ trace'[Len(trace')].resp.type = "embed_result" =>
                    trace'[Len(trace')].resp.embeddings[1][1].handle
                        = trace[Len(trace) - 1].resp.embeddings[1][1].handle]_vars

\* a full-mode run answered two consecutive embed requests for codet5p with
\* embeddings after one construction
C12_Witness ==
    /\ mode = "full"
    /\ Len(trace) = 5
    /\ IsRead(2) /\ EmbedNaming(trace[2].line, CODET5)
    /\ IsRead(4) /\ EmbedNaming(trace[4].line, CODET5)
    /\ IsWrite(3) /\ trace[3].resp.type = "embed_result"
    /\ IsWrite(5) /\ trace[5].resp.type = "embed_result"
    /\ Len(loadLog) = 1

\* C13 (as claimed): over a whole run the fallback loader of codebert runs at
\* most once, also when the fallback construction fails.
C13_FallbackAtMostOnce == Cardinality(FallbackRuns) <= 1

NoFallbackNames == {CODET5, GRAPHCODEBERT, UNIXCODER, MINILM}

\* this step handles an embed request naming `name` and the construction it
\* starts fails
FailedConstructionStep(name) ==
    /\ Handling("full")
    /\ EmbedNaming(cur[1], name)
    /\ Len(loadLog') > Len(loadLog)
    /\ ~loadLog'[Len(loadLog) + 1].ok

\* C14: when an embed request names a provider without fallback and its
\* construction fails, the request is answered with an error response carrying
\* its id, no other provider is constructed, and models and tokenizers are
\* left as they were.
C14_FailedLoadLeavesRegistry ==
    [][\A name \in NoFallbackNames :
          FailedConstructionStep(name) =>
              /\ trace'[Len(trace')].ev = "write"
              /\ trace'[Len(trace')].resp.type = "error"
              /\ trace'[Len(trace')].resp.request_id = RequestIdOf(cur[1].obj, Uuid4)
              /\ loadLog' = Append(loadLog, Attempt(name, "direct", FALSE))
              /\ models' = models
              /\ tokenizers' = tokenizers]_vars

\* a full-mode run has loaded all-MiniLM, then answered an embed request for
\* codet5p with an error after its construction failed
C14_Witness ==
    /\ mode = "full"
    /\ pc = "ready"
    /\ Len(trace) = 5
    /\ IsRead(4) /\ EmbedNaming(trace[4].line, CODET5)
    /\ IsWrite(5) /\ trace[5].resp.type = "error"
    /\ loadLog = <<Attempt(MINILM, "direct", TRUE), Attempt(CODET5, "direct", FALSE)>>
    /\ KeySet(models) = {MINILM}

\* ---- what the service would write for the next line, from the state it is in
\* one iteration of the for loop of ModelService.run on `line`: the responses
\* printed (none when json.loads or request.get raises)
run_answer(line, reg, env) ==
    IF JsonLoads(Strip(line)).ok /\ JsonLoads(Strip(line)).isdict
    THEN <<process_request(JsonLoads(Strip(line)).value, reg, env).response>>
    ELSE <<>>

\* one iteration of the wrapper's while loop on `line` with the module-level
\* request_id holding rid: the responses printed
minimal_loop_answer(line, rid) ==
    IF IsEmptyStr(line) THEN <<>>
    ELSE IF ~JsonLoads(line).ok
         THEN <<ErrorResponse("decode_error", <<"JSON decode error: ", "JSONDecodeError">>)>>
         ELSE IF ~JsonLoads(line).isdict
              THEN <<ErrorResponse(HandlerRequestId(rid), <<"AttributeError: ", "get">>)>>
              ELSE <<minimal_answer(JsonLoads(line).value)>>

NextAnswer(line, env) ==
    IF mode = "full"
    THEN run_answer(line, Registry(models, tokenizers, loadLog), env)
    ELSE minimal_loop_answer(line, request_id)

Outcomes == [primaryOk : BOOLEAN, fallbackOk : BOOLEAN, encodeOk : BOOLEAN]

\* the answers to every line that may come next
NextAnswers == [line \in Lines(mode), env \in Outcomes |-> NextAnswer(line, env)]

UnknownKind(line) ==
    IsObject(line) /\ (line.obj.type = None_ \/ line.obj.type[1] \notin Kinds)

\* C15 (as claimed): in both modes the step that handles an object whose type
\* is not one of the kinds writes exactly one error response naming the type
\* and carrying the request's id, leaves the registry unchanged, and leaves
\* the answer to every line that may come next as it was before.
C15_UnknownTypeNoEffect ==
    [][(pc = "handling" /\ cur # None_ /\ UnknownKind(cur[1]) /\ HasId(cur[1])) =>
          /\ trace' = stdout_flush(print_json(trace, ErrorResponse(cur[1].obj.request_id[1],
                                                          UnknownTypeText(cur[1].obj.type))))
          /\ <<models, tokenizers, loadLog>>' = <<models, tokenizers, loadLog>>
          /\ NextAnswers' = NextAnswers]_vars

\* ---- the loop and its end
Running == pc \in {"ready", "handling"}
ReadForms == {trace[i].line.form : i \in {k \in 1..Len(trace) : IsRead(k)}}

\* C16: once the loop runs, it is left only by the step that meets end of
\* input, taken when no line is pending; handling a line of any form returns
\* to reading; and under fairness the loop eventually stops.
C16_OnlyEofStops ==
    /\ [](pc = "stopped" => (trace[Len(trace)].ev = "eof" /\ cur = None_))
    /\ [][Running =>
            \/ Running'
            \/ pc = "ready" /\ cur = None_ /\ pc' = "stopped" /\ trace' = Append(trace, EofEv)]_vars
    /\ [][pc = "handling" => pc' = "ready"]_vars
    /\ (Running ~> pc = "stopped")

\* a run read a malformed line, a non-object line and an object of unknown
\* kind, and stopped at end of input
C16_Witness ==
    /\ pc = "stopped"
    /\ trace[Len(trace)].ev = "eof"
    /\ {"garbage", "array"} \subseteq ReadForms
    /\ \E i \in 1..Len(trace) : IsRead(i) /\ UnknownKind(trace[i].line)

\* C17 (as claimed): in both modes a blank line, empty or of whitespace only,
\* gets no response.
C17_BlankIgnored ==
    \A i \in 1..Len(trace) :
        (Handled(i) /\ Blank(trace[i].line)) => AnswerCount(i) = 0

\* C18 (as claimed): a response of type "analyze_result" always holds metrics,
\* never just the message of a failure raised inside embedding or analysis.
C18_AnalyzeFailureIsError ==
    \A i \in 1..Len(trace) :
        (IsWrite(i) /\ trace[i].resp.type = "analyze_result") =>
            /\ trace[i].resp.result[1].kind # "error"
            /\ trace[i].resp.result[1].error = None_

\* ---- health
IsHealth(i) == IsWrite(i) /\ trace[i].resp.type = "health_result"

\* C19: in both modes, as long as no provider is loaded, every health request
\* with a request_id has been answered by exactly one response, of type
\* "health_result", with that request_id, status "ready" and an empty
\* models_loaded list.
C19_HealthBeforeAnyProvider ==
    Len(models) = 0 =>
        \A i \in 1..Len(trace) :
            (Handled(i) /\ HasType(trace[i].line, "health") /\ HasId(trace[i].line)) =>
                /\ AnswerCount(i) = 1
                /\ AnswerTo(i).type = "health_result"
                /\ AnswerTo(i).request_id = trace[i].line.obj.request_id[1]
                /\ AnswerTo(i).status = Some("ready")
                /\ AnswerTo(i).models_loaded = Some(<<>>)

\* in full mode a health request with an id was answered after a construction
\* had failed, nothing being loaded
C19_Witness ==
    /\ mode = "full"
    /\ Len(models) = 0
    /\ Len(loadLog) > 0
    /\ Len(trace) > 2
    /\ Handled(Len(trace) - 1)
    /\ HasType(trace[Len(trace) - 1].line, "health") /\ HasId(trace[Len(trace) - 1].line)

\* C20 (as claimed): every health response reports the operating mode, full or
\* minimal, that was chosen at startup.
C20_HealthReportsMode ==
    \A i \in 1..Len(trace) : IsHealth(i) => trace[i].resp.mode = Some(mode)

\* C20 (amended): every health response has status "ready" and a models_loaded
\* list, which names loaded providers only, is empty in minimal mode and is the
\* registry's key list when the response was just written in full mode; it
\* has no mode field.
C20_HealthReportsReadyAndNames ==
    /\ \A i \in 1..Len(trace) :
          IsHealth(i) =>
              /\ trace[i].resp.status = Some("ready")
              /\ trace[i].resp.models_loaded # None_
              /\ \A k \in 1..Len(trace[i].resp.models_loaded[1]) :
                    Loaded(trace[i].resp.models_loaded[1][k])
              /\ mode = "minimal" => trace[i].resp.models_loaded[1] = <<>>
              /\ trace[i].resp.mode = None_
    /\ (Len(trace) > 0 /\ IsHealth(Len(trace)) /\ mode = "full") =>
          trace[Len(trace)].resp.models_loaded = Some(DictKeys(models))

\* a full-mode health response to a request lists a loaded provider
C20_Witness ==
    /\ mode = "full"
    /\ Len(trace) > 2
    /\ IsHealth(Len(trace))
    /\ IsRead(Len(trace) - 1)
    /\ trace[Len(trace)].resp.models_loaded[1] # <<>>

\* ---- embeddings
\* the provider is in the registry with what generate_embeddings reads of it
ProviderReady(ms, ts, name) == DictHas(ms, name) /\ (name = MINILM \/ DictHas(ts, name))
TextsOf(line) == Get(line.obj, "texts", <<>>)
EncodeFailed(resp) ==
    resp.type = "error" /\ resp.error # None_ /\ resp.error[1][1] = "Embedding failed: "

\* C21: in full mode, the step that handles an embed request with N texts and
\* ends with the named provider loaded answers with an embed_result of exactly
\* N vectors, the i-th being the embedding of the i-th text by that provider's
\* handle, on the sentence-transformer path and on the tokenizer/model path
\* alike; the only other answer is the error of an encoding call that raised.
C21_OneVectorPerText ==
    [][(Handling("full") /\ HasType(cur[1], "embed") 
        /\ ProviderReady(models', tokenizers', EmbedModel(cur[1]))) =>
          /\ trace'[Len(trace')].ev = "write"
          /\ trace'[Len(trace')].resp.type = "embed_result" \/ EncodeFailed(trace'[Len(trace')].resp)
          /\ trace'[Len(trace')].resp.type = "embed_result" =>
                /\ trace'[Len(trace')].resp.embeddings # None_
                /\ Len(trace'[Len(trace')].resp.embeddings[1]) = Len(TextsOf(cur[1]))
                /\ \A k \in 1..Len(TextsOf(cur[1])) :
                      trace'[Len(trace')].resp.embeddings[1][k]
                          = Vector(TextsOf(cur[1])[k], DictGet(models', EmbedModel(cur[1])))]_vars

\* two texts were embedded in order on the sentence-transformer path, then no
\* text on the tokenizer/model path
C21_Witness ==
    /\ mode = "full"
    /\ Len(trace) = 5
    /\ IsRead(2) /\ EmbedNaming(trace[2].line, MINILM) /\ TextsOf(trace[2].line) = <<"t2", "t1">>
    /\ IsWrite(3) /\ trace[3].resp.type = "embed_result" /\ Len(trace[3].resp.embeddings[1]) = 2
    /\ IsRead(4) /\ EmbedNaming(trace[4].line, CODET5) /\ TextsOf(trace[4].line) = <<>>
    /\ IsWrite(5) /\ trace[5].resp.embeddings = Some(<<>>)

\* ---- analyzer numerics
RECURSIVE CrossSum(_, _)
\* the sum over the blocks c of rest of b.n * c.n * (b.v - c.v)^2
CrossSum(b, rest) ==
    IF Len(rest) = 0 THEN 0
    ELSE b.n * rest[1].n * (b.v - rest[1].v) * (b.v - rest[1].v) + CrossSum(b, Tail(rest))
RECURSIVE PairSum(_)
\* the sum over all pairs of components of the squared difference
PairSum(e) == IF Len(e) = 0 THEN 0 ELSE CrossSum(e[1], Tail(e)) + PairSum(Tail(e))
\* the variance as the mean squared difference of pairs of components
PairVariance(e) == Rat(PairSum(e), 100 * VLen(e) * VLen(e))
Clamp(x, lo, hi) == IF RatLess(x, lo) THEN lo ELSE IF RatLess(hi, x) THEN hi ELSE x
Tenth == Rat(1, 10)
NineTenths == Rat(9, 10)

\* C22: the quality score of every embedding, the empty one included, lies in
\* [0.1, 0.9]; for a non-empty embedding it is variance * 100 clamped to
\* [0.1, 0.9].
C22_QualityScoreClamped ==
    ret.fn = "quality" =>
        /\ ~RatLess(ret.value, Tenth)
        /\ ~RatLess(NineTenths, ret.value)
        /\ Len(arg) > 0 =>
              RatEq(ret.value, Clamp(Rat(PairSum(arg), VLen(arg) * VLen(arg)), Tenth, NineTenths))

\* a non-empty embedding got a score strictly inside the range
C22_Witness ==
    /\ ret.fn = "quality"
    /\ Len(arg) > 0
    /\ RatLess(Tenth, ret.value)
    /\ RatLess(ret.value, NineTenths)

\* floor(std * std * k * k) for the variance in hundredths, k * k / 100 = p / q
ScaledVariance(e, p, q) == (p * PairSum(e)) \div (q * VLen(e) * VLen(e))
\* c is int(x) clamped to [1, hi], where x * x has the integer part t
IsClampedRoot(c, t, hi) ==
    /\ c \in 1..hi
    /\ c > 1 => c * c <= t
    /\ c < hi => t < (c + 1) * (c + 1)

\* C23: for every embedding the complexity metrics are integers, cyclomatic in
\* [1, 20] and cognitive in [1, 30]: int(std * 50) and int(std * 75) clamped to
\* those ranges, and both 1 for the empty embedding.
C23_ComplexityClamped ==
    ret.fn = "complexity" =>
        /\ ret.value.cyclomatic_complexity \in 1..20
        /\ ret.value.cognitive_complexity \in 1..30
        /\ Len(arg) = 0 =>
              ret.value.cyclomatic_complexity = 1 /\ ret.value.cognitive_complexity = 1
        /\ Len(arg) > 0 =>
              /\ IsClampedRoot(ret.value.cyclomatic_complexity, ScaledVariance(arg, 25, 1), 20)
              /\ IsClampedRoot(ret.value.cognitive_complexity, ScaledVariance(arg, 225, 4), 30)

\* an embedding whose metrics are strictly inside both ranges
C23_Witness ==
    /\ ret.fn = "complexity"
    /\ ret.value.cyclomatic_complexity \in 2..19
    /\ ret.value.cognitive_complexity \in 2..29
    /\ ret.value.cyclomatic_complexity # ret.value.cognitive_complexity

TagSet(r) == {r.patterns[i] : i \in 1..Len(r.patterns)}

\* C24: each of the three tags is in the result exactly when its own test
\* holds (mean > 0.1, standard deviation > 0.2, more than 500 components),
\* whatever the other two tests say; a non-empty embedding has confidence 0.75,
\* the empty one no tag and confidence 0.
C24_TagsIndependent ==
    ret.fn = "patterns" =>
        /\ Len(arg) = 0 => ret.value = [patterns |-> <<>>, confidence |-> 0]
        /\ Len(arg) > 0 =>
              /\ "functional" \in TagSet(ret.value) <=> VSum(arg) > VLen(arg)
              /\ "complex" \in TagSet(ret.value) <=> PairSum(arg) > 4 * VLen(arg) * VLen(arg)
              /\ "detailed" \in TagSet(ret.value) <=> VLen(arg) > 500
              /\ TagSet(ret.value) \subseteq {"functional", "complex", "detailed"}
              /\ Len(ret.value.patterns) = Cardinality(TagSet(ret.value))
              /\ ret.value.confidence = 75

\* an embedding of more than 500 components is "functional" and "detailed"
\* without being "complex"
C24_Witness ==
    /\ ret.fn = "patterns"
    /\ ret.value.patterns = <<"functional", "detailed">>

\* ---- analysis of a task that is none of the three
AnalyzeModel(line) == Get(line.obj, "model", CODEBERT)
TaskOf(line) == Get(line.obj, "task", "quality")
KnownTasks == {"quality", "patterns", "complexity"}

\* C25: the step that handles an analyze request whose task is none of
\* quality, patterns, complexity and ends with the named provider loaded
\* answers with an analyze_result; unless the embedding call raised, its result
\* holds the task name, the dimensionality of the code's vector and the
\* confidence 0.75.
C25_GenericEnvelope ==
    [][(/\ Handling("full") /\ HasType(cur[1], "analyze") /\ TaskOf(cur[1]) \notin KnownTasks
        /\ ProviderReady(models', tokenizers', AnalyzeModel(cur[1]))) =>
          /\ trace'[Len(trace')].ev = "write"
          /\ trace'[Len(trace')].resp.type = "analyze_result"
          /\ trace'[Len(trace')].resp.request_id = RequestIdOf(cur[1].obj, Uuid4)
          /\ trace'[Len(trace')].resp.result # None_
          /\ \/ trace'[Len(trace')].resp.result[1].error
                    = Some(<<"Embedding failed: ", AnalyzeModel(cur[1])>>)
             \/ /\ trace'[Len(trace')].resp.result[1].error = None_
                /\ trace'[Len(trace')].resp.result[1].task = TaskOf(cur[1])
                /\ trace'[Len(trace')].resp.result[1].embedding_dim
                       = Some([dim_of |-> AnalyzeModel(cur[1])])
                /\ trace'[Len(trace')].resp.result[1].confidence = Some(75)]_vars

\* an analyze request with task "summary" was answered with the envelope
C25_Witness ==
    /\ mode = "full"
    /\ Len(trace) = 3
    /\ IsRead(2) /\ HasType(trace[2].line, "analyze") /\ TaskOf(trace[2].line) = "summary"
    /\ IsWrite(3) /\ trace[3].resp.type = "analyze_result"
    /\ trace[3].resp.result[1].kind = "generic"
    /\ trace[3].resp.result[1].confidence = Some(75)

\* ---- routing
\* w occurs in q at position i, letters compared without regard to case
MatchesAt(q, w, i) ==
    /\ i + Len(w) - 1 <= Len(q)
    /\ \A j \in 1..Len(w) : q[i + j - 1] = w[j] \/ q[i + j - 1] = UpperChar(w[j])
SignalsComplexity(q) ==
    \E w \in KeywordSet : \E i \in 1..Len(q) : MatchesAt(q, w, i)

\* C26: route_decision answers "simple" exactly when the query has fewer than
\* 100 characters and contains none of the seven keywords in any letter case,
\* "complex" otherwise, always with confidence 0.8; "What is 2+2?" is simple,
\* "Analyze the architecture of this project in depth" is complex, and a
\* request without a query is simple.
C26_SimpleIffShortAndPlain ==
    /\ ret.fn = "route_decision" =>
          /\ ret.value.type = "route_decision"
          /\ ret.value.confidence = Some(80)
          /\ ret.value.mode \in {Some("simple"), Some("complex")}
          /\ ret.value.mode = Some("simple") <=> (Len(arg) < 100 /\ ~SignalsComplexity(arg))
          /\ arg = Q_Simple => ret.value.mode = Some("simple")
          /\ arg = Q_Architecture => ret.value.mode = Some("complex")
    /\ ret.fn = "route_default" =>
          ret.value.mode = Some("simple") /\ ret.value.confidence = Some(80)

\* a query of 99 characters with a keyword in capitals is complex
C26_Witness ==
    /\ ret.fn = "route_decision"
    /\ Len(arg) = 99
    /\ SubSeq(arg, 1, 5) = <<"D", "E", "B", "U", "G">>
    /\ ret.value.mode = Some("complex")

\* ---- route_decision over a run
\* what a service of the running mode answers to the line when it is the first
\* line it reads
FreshAnswer(line) ==
    IF mode = "full"
    THEN run_answer(line, Registry(<<>>, <<>>, <<>>), AllOk)
    ELSE minimal_loop_answer(line, None_)
IsRoute(i) == Handled(i) /\ HasType(trace[i].line, "route_decision")

\* C27: whatever lines were handled before it, a route_decision request gets
\* the mode and the confidence that a service which has handled nothing gives
\* the same request; so two requests with the same query get the same mode and
\* confidence.
C27_RouteHistoryIndependent ==
    /\ \A i \in 1..Len(trace) :
          IsRoute(i) =>
              /\ AnswerCount(i) = 1
              /\ Len(FreshAnswer(trace[i].line)) = 1
              /\ AnswerTo(i).type = FreshAnswer(trace[i].line)[1].type
              /\ AnswerTo(i).mode = FreshAnswer(trace[i].line)[1].mode
              /\ AnswerTo(i).confidence = FreshAnswer(trace[i].line)[1].confidence
    /\ \A i \in 1..Len(trace) : \A j \in 1..Len(trace) :
          (IsRoute(i) /\ IsRoute(j) /\ trace[i].line.obj.query = trace[j].line.obj.query) =>
              /\ AnswerTo(i).mode = AnswerTo(j).mode
              /\ AnswerTo(i).confidence = AnswerTo(j).confidence

\* in minimal mode the same query was answered "simple" as the first line and
\* again after a line that is no JSON
C27_Witness ==
    /\ mode = "minimal"
    /\ Len(trace) = 6
    /\ IsRoute(1) /\ AnswerTo(1).mode = Some("simple")
    /\ IsRead(3) /\ Malformed(trace[3].line)
    /\ IsRoute(5) /\ trace[5].line.obj.query = trace[1].line.obj.query
    /\ AnswerTo(5).mode = Some("simple")

\* C29: in both modes, whenever the service is about to read a line, and at
\* every line it has read, every response written so far, the startup
\* health_result included, has been flushed.
C29_FlushedBeforeRead ==
    /\ pc = "ready" => \A k \in 1..Len(trace) : IsWrite(k) => trace[k].flushed
    /\ \A i \in 1..Len(trace) :
          IsRead(i) => \A k \in 1..(i - 1) : IsWrite(k) => trace[k].flushed

\* a full-mode service has written the startup health_result and a response,
\* and has read the next line
C29_Witness ==
    /\ mode = "full"
    /\ pc = "handling"
    /\ Len(trace) = 4
    /\ IsWrite(1) /\ IsRead(2) /\ IsWrite(3) /\ IsRead(4)

\* ---- generate
GenerateModel(line) == Get(line.obj, "model", "mistral-7b")
PromptOf(line) == Get(line.obj, "prompt", <<>>)
\* the first n characters of s
Take(s, n) == [i \in 1..(IF Len(s) < n THEN Len(s) ELSE n) |-> s[i]]
IsGenerate(i) == Handled(i) /\ HasType(trace[i].line, "generate")

\* C28: the step that handles a generate request answers with a
\* generate_result carrying the request's id whose text is made of the first
\* 50 characters of the prompt and the model name, and constructs nothing:
\* models, tokenizers and the construction history are unchanged, whatever
\* model the request names.
C28_GenerateLoadsNothing ==
    [][(Handling("full") /\ HasType(cur[1], "generate")) =>
          /\ trace'[Len(trace')].ev = "write"
          /\ trace'[Len(trace')].resp.type = "generate_result"
          /\ trace'[Len(trace')].resp.request_id = RequestIdOf(cur[1].obj, Uuid4)
          /\ trace'[Len(trace')].resp.text
                = Some(<<"Generated response for: ", Take(PromptOf(cur[1]), 50), GenerateModel(cur[1])>>)
          /\ models' = models
          /\ tokenizers' = tokenizers
          /\ loadLog' = loadLog]_vars

\* two generate requests naming a model that is no provider, with prompts of
\* 51 characters that differ in the last one only, got the same text, and
\* nothing was constructed
C28_Witness ==
    /\ mode = "full"
    /\ Len(trace) = 5
    /\ IsGenerate(2) /\ IsGenerate(4)
    /\ GenerateModel(trace[2].line) = "nope" /\ GenerateModel(trace[4].line) = "nope"
    /\ PromptOf(trace[2].line) = P_Long /\ PromptOf(trace[4].line) = P_Long2
    /\ trace[3].resp.text = trace[5].resp.text
    /\ Len(loadLog) = 0

\* ---- codebert served by its fallback
\* the construction of codebert failed, its fallback succeeded and codebert is
\* in the registry
FallbackServes ==
    /\ Loaded(CODEBERT)
    /\ \E i \in 1..(Len(loadLog) - 1) :
          /\ loadLog[i] = Attempt(CODEBERT, "direct", FALSE)
          /\ loadLog[i + 1] = Attempt(MINILM, "fallback", TRUE)

Constructed(log, name) == \E i \in 1..Len(log) : log[i].name = name /\ log[i].ok

\* C31 (as claimed): once a provider has been constructed successfully, no
\* later request constructs it again or replaces the handle stored under its
\* name.
C31_HandleCachedForLifetime ==
    [][\A name \in model_loaders :
          Constructed(loadLog, name) =>
              /\ DictHas(models', name)
              /\ DictGet(models', name) = DictGet(models, name)
              /\ \A i \in (Len(loadLog) + 1)..Len(loadLog') : loadLog'[i].name # name]_vars


\* ---- health and the registry
\* the names under which the constructions recorded in log stored a handle:
\* each provider constructed successfully, and codebert once its fallback has
\* succeeded
StoredNames(log) ==
    {log[i].name : i \in {k \in 1..Len(log) : log[k].ok}}
        \cup (IF \E i \in 1..Len(log) : log[i].via = "fallback" /\ log[i].ok THEN {CODEBERT} ELSE {})

\* C32: in full mode the step that handles a health request leaves models,
\* tokenizers and the construction history as they are, and the models_loaded
\* list it writes holds, once each, exactly the names of the registry, which
\* are exactly the names under which an earlier request stored a handle.
C32_HealthReadsRegistry ==
    [][(Handling("full") /\ HasType(cur[1], "health")) =>
          /\ models' = models
          /\ tokenizers' = tokenizers
          /\ loadLog' = loadLog
          /\ trace'[Len(trace')].ev = "write"
          /\ trace'[Len(trace')].resp.type = "health_result"
          /\ trace'[Len(trace')].resp.models_loaded # None_
          /\ LET names == trace'[Len(trace')].resp.models_loaded[1]
             IN /\ {names[k] : k \in 1..Len(names)} = KeySet(models)
                /\ {names[k] : k \in 1..Len(names)} = StoredNames(loadLog)
                /\ Len(names) = Cardinality(KeySet(models))]_vars

\* a full-mode health response lists codebert and all-MiniLM after the
\* codebert fallback stored both
C32_Witness ==
    /\ mode = "full"
    /\ Len(trace) = 5
    /\ IsRead(4) /\ HasType(trace[4].line, "health")
    /\ IsHealth(5)
    /\ loadLog = <<Attempt(CODEBERT, "direct", FALSE), Attempt(MINILM, "fallback", TRUE)>>
    /\ Len(trace[5].resp.models_loaded[1]) = 2


\* ---- defaults of the embed and analyze branches
NoField(line, field) == IsObject(line) /\ line.obj[field] = None_
\* the constructions this step adds to the history
NewAttempts(log, log2) == SubSeq(log2, Len(log) + 1, Len(log2))

\* C33: in full mode the step that handles an embed request without a model
\* field constructs all-MiniLM only, and only when it is not loaded, adds no
\* other name to the registry, and answers with vectors of the all-MiniLM
\* handle or with an error; the step that handles an analyze request without
\* model and task looks up codebert, constructs it first when it is not
\* loaded, and a result it computes is the "quality" result over a vector of
\* the codebert handle.
C33_DefaultModelAndTask ==
    [][/\ (Handling("full") /\ HasType(cur[1], "embed") /\ NoField(cur[1], "model")) =>
             /\ KeySet(models') \subseteq KeySet(models) \cup {MINILM}
             /\ tokenizers' = tokenizers
             /\ NewAttempts(loadLog, loadLog') \in
                   (IF DictHas(models, MINILM) THEN {<<>>}
                    ELSE {<<Attempt(MINILM, "direct", ok)>> : ok \in BOOLEAN})
             /\ trace'[Len(trace')].resp.type \in {"embed_result", "error"}
             /\ trace'[Len(trace')].resp.type = "embed_result" =>
                   /\ DictHas(models', MINILM)
                   /\ \A k \in 1..Len(trace'[Len(trace')].resp.embeddings[1]) :
                         trace'[Len(trace')].resp.embeddings[1][k].handle = DictGet(models', MINILM)
       /\ (Handling("full") /\ HasType(cur[1], "analyze")
              /\ NoField(cur[1], "model") /\ NoField(cur[1], "task")) =>
             /\ IF DictHas(models, CODEBERT)
                THEN loadLog' = loadLog
                ELSE /\ Len(loadLog') > Len(loadLog)
                     /\ loadLog'[Len(loadLog) + 1].name = CODEBERT
                     /\ loadLog'[Len(loadLog) + 1].via = "direct"
             /\ trace'[Len(trace')].resp.type \in {"analyze_result", "error"}
             /\ trace'[Len(trace')].resp.type = "analyze_result" =>
                   /\ DictHas(models', CODEBERT)
                   /\ trace'[Len(trace')].resp.result[1].kind \in {"quality", "error"}
                   /\ trace'[Len(trace')].resp.result[1].kind = "quality" =>
                         trace'[Len(trace')].resp.result[1].embedding[1].handle
                             = DictGet(models', CODEBERT)]_vars

\* a full-mode run answered an embed request without a model from all-MiniLM
\* and then an analyze request without model and task with a quality result
\* from codebert
C33_Witness ==
    /\ mode = "full"
    /\ Len(trace) = 5
    /\ IsRead(2) /\ HasType(trace[2].line, "embed") /\ NoField(trace[2].line, "model")
    /\ IsWrite(3) /\ trace[3].resp.type = "embed_result"
    /\ IsRead(4) /\ HasType(trace[4].line, "analyze")
    /\ NoField(trace[4].line, "model") /\ NoField(trace[4].line, "task")
    /\ IsWrite(5) /\ trace[5].resp.type = "analyze_result"
    /\ trace[5].resp.result[1].kind = "quality"
    /\ KeySet(models) = {MINILM, CODEBERT}


\* ---- the queries of test_routing.py
\* C34 (as claimed): route_decision answers "simple" to "What is 2 + 2?" and
\* to "What is the name of this repository?", and "complex" to "Explain how
\* the authentication system in this codebase works" and to "Analyze the
\* architecture of this project".
C34_TestQueriesAsExpected ==
    ret.fn = "route_decision" =>
        /\ arg \in {T_Math, T_Repo} => ret.value.mode = Some("simple")
        /\ arg \in {T_Auth, T_Arch} => ret.value.mode = Some("complex")


\* ---- names outside the loader table
\* the model the request names when it is an embed or an analyze request
NamedModel(line) ==
    IF HasType(line, "embed") THEN Some(EmbedModel(line))
    ELSE IF HasType(line, "analyze") THEN Some(AnalyzeModel(line))
    ELSE None_

\* C35: in full mode the step that handles an embed or analyze request naming
\* a model outside the loader table writes an error response with the text
\* "Unknown model: <name>" and the request's id, constructs nothing and
\* leaves models and tokenizers as they are.
C35_UnknownModelIsError ==
    [][(Handling("full") /\ NamedModel(cur[1]) # None_ /\ NamedModel(cur[1])[1] \notin model_loaders) =>
          /\ trace'[Len(trace')].ev = "write"
          /\ trace'[Len(trace')].resp.type = "error"
          /\ trace'[Len(trace')].resp.error = Some(<<"Unknown model: ", NamedModel(cur[1])[1]>>)
          /\ trace'[Len(trace')].resp.request_id = cur[1].obj.request_id[1]
          /\ trace'[Len(trace')].resp.result = None_
          /\ loadLog' = loadLog
          /\ models' = models
          /\ tokenizers' = tokenizers]_vars

\* a full-mode run answered an embed request and an analyze request naming
\* "nope" with the error, nothing having been constructed
C35_Witness ==
    /\ mode = "full"
    /\ Len(trace) = 5
    /\ IsRead(2) /\ HasType(trace[2].line, "embed") /\ EmbedModel(trace[2].line) = "nope"
    /\ IsWrite(3) /\ trace[3].resp.error = Some(<<"Unknown model: ", "nope">>)
    /\ IsRead(4) /\ HasType(trace[4].line, "analyze") /\ AnalyzeModel(trace[4].line) = "nope"
    /\ IsWrite(5) /\ trace[5].resp.error = Some(<<"Unknown model: ", "nope">>)
    /\ Len(loadLog) = 0


\* ---- registry well-formedness
\* C36: in every state of a full-mode run each name in models is one of the
\* five names of the loader table, and each name in tokenizers is a name in
\* models.
C36_RegistryWellFormed ==
    mode = "full" =>
        /\ KeySet(models) \subseteq model_loaders
        /\ KeySet(tokenizers) \subseteq KeySet(models)
        /\ Cardinality(model_loaders) = 5

\* a full-mode run holds all-MiniLM without a tokenizer and codet5p with one,
\* after a construction that failed
C36_Witness ==
    /\ mode = "full"
    /\ KeySet(models) = {MINILM, CODET5}
    /\ KeySet(tokenizers) = {CODET5}
    /\ \E i \in 1..Len(loadLog) : ~loadLog[i].ok


\* ---- the codebert fallback and the registry
\* this step handles an embed or analyze request naming codebert and the
\* construction of codebert it starts fails
CodebertFailsStep ==
    /\ Handling("full")
    /\ NamedModel(cur[1]) = Some(CODEBERT)
    /\ Len(loadLog') > Len(loadLog)
    /\ loadLog'[Len(loadLog) + 1] = Attempt(CODEBERT, "direct", FALSE)
FallbackSucceeded(log) == \E i \in 1..Len(log) : log[i].via = "fallback" /\ log[i].ok

\* C37: when the construction of codebert fails, the fallback construction of
\* all-MiniLM follows in the same step; if it succeeds, models holds codebert
\* and all-MiniLM bound to one handle, and it still does when a later health
\* request is handled, whose response lists both names; if it fails, models
\* and tokenizers are left as they were and the request is answered with an
\* error response.
C37_FallbackAliasesOneHandle ==
    [][/\ CodebertFailsStep =>
             /\ Len(loadLog') = Len(loadLog) + 2
             /\ loadLog'[Len(loadLog')].name = MINILM
             /\ loadLog'[Len(loadLog')].via = "fallback"
             /\ IF loadLog'[Len(loadLog')].ok
                THEN /\ DictHas(models', CODEBERT) /\ DictHas(models', MINILM)
                     /\ DictGet(models', CODEBERT) = DictGet(models', MINILM)
                     /\ DictGet(models', MINILM).serial = Len(loadLog')
                ELSE /\ models' = models
                     /\ tokenizers' = tokenizers
                     /\ ~DictHas(models', CODEBERT)
                     /\ trace'[Len(trace')].ev = "write"
                     /\ trace'[Len(trace')].resp.type = "error"
                     /\ trace'[Len(trace')].resp.request_id = RequestIdOf(cur[1].obj, Uuid4)
       /\ (Handling("full") /\ HasType(cur[1], "health") /\ FallbackSucceeded(loadLog)) =>
             /\ DictHas(models, CODEBERT) /\ DictHas(models, MINILM)
             /\ DictGet(models, CODEBERT) = DictGet(models, MINILM)
             /\ \E k \in 1..Len(trace'[Len(trace')].resp.models_loaded[1]) :
                   trace'[Len(trace')].resp.models_loaded[1][k] = CODEBERT
             /\ \E k \in 1..Len(trace'[Len(trace')].resp.models_loaded[1]) :
                   trace'[Len(trace')].resp.models_loaded[1][k] = MINILM]_vars

\* a full-mode run answered a codebert request with an error after both
\* constructions failed, then a codebert request whose fallback succeeded,
\* then a health request with both names
C37_Witness ==
    /\ mode = "full"
    /\ Len(trace) = 7
    /\ IsRead(2) /\ NamedModel(trace[2].line) = Some(CODEBERT)
    /\ IsWrite(3) /\ trace[3].resp.type = "error"
    /\ IsRead(4) /\ NamedModel(trace[4].line) = Some(CODEBERT)
    /\ IsRead(6) /\ HasType(trace[6].line, "health")
    /\ IsHealth(7) /\ trace[7].resp.models_loaded = Some(<<MINILM, CODEBERT>>)
    /\ loadLog = <<Attempt(CODEBERT, "direct", FALSE), Attempt(MINILM, "fallback", FALSE),
                   Attempt(CODEBERT, "direct", FALSE), Attempt(MINILM, "fallback", TRUE)>>


\* ---- the minimal loop keeps nothing
\* C38: in minimal mode the step that handles a line holding a JSON object
\* writes one response, the one a loop that has handled nothing writes for
\* the same line, with the request's own id ("unknown" when it has none); for
\* a health request it has status "ready" and an empty models_loaded list; and
\* the registry stays empty.
C38_MinimalLoopStateless ==
    [][(Handling("minimal") /\ IsObject(cur[1])) =>
          /\ Len(trace') = Len(trace) + 1
          /\ trace'[Len(trace')].ev = "write"
          /\ <<trace'[Len(trace')].resp>> = minimal_loop_answer(cur[1], None_)
          /\ trace'[Len(trace')].resp.request_id = RequestIdOf(cur[1].obj, "unknown")
          /\ HasType(cur[1], "health") =>
                /\ trace'[Len(trace')].resp.type = "health_result"
                /\ trace'[Len(trace')].resp.status = Some("ready")
                /\ trace'[Len(trace')].resp.models_loaded = Some(<<>>)
          /\ models' = <<>> /\ tokenizers' = <<>> /\ loadLog' = <<>>]_vars

\* a minimal-mode run answered a route_decision request whose query is a
\* number, an unknown type and then a health request without id, each on its
\* own fields
C38_Witness ==
    /\ mode = "minimal"
    /\ Len(trace) = 6
    /\ IsRead(1) /\ HasType(trace[1].line, "route_decision")
    /\ IsWrite(2) /\ trace[2].resp.type = "error" /\ trace[2].resp.request_id = "b"
    /\ IsRead(3) /\ HasType(trace[3].line, "bogus")
    /\ IsWrite(4) /\ UnknownTypeError(trace[4].resp) /\ trace[4].resp.request_id = "a"
    /\ IsRead(5) /\ HasType(trace[5].line, "health") /\ ~HasId(trace[5].line)
    /\ IsHealth(6) /\ trace[6].resp.request_id = "unknown"
    /\ trace[6].resp.models_loaded = Some(<<>>)

====
